---- MODULE Spec2Model ----
(***************************************************************************)
(* User Management API (src/main.py): a FastAPI application exposing five *)
(* endpoints over the module-level list db_users.                          *)
(*                                                                         *)
(* Representation.  A wallet (float) is written as its integer value       *)
(* (100.0 as 100); a birthdate (datetime.date) as <<year, month, day>>.    *)
(* A JSON request body is a record whose DOMAIN is the set of keys the     *)
(* client sent; a response is [status, detail, users], where users holds   *)
(* the User objects of the response body (one for the single-record        *)
(* endpoints, all of db_users for the listing, none for an error).         *)
(***************************************************************************)
EXTENDS Integers, Sequences, FiniteSets, TLC

VARIABLES
  db_users,   \* the list db_users
  request,    \* Spec: the request served last
  response,   \* Spec: its response
  pc,         \* SpecConc: where each client's request is
  creq,       \* SpecConc: each client's request
  cresp,      \* SpecConc: each client's response
  together    \* SpecConc: the pairs of clients whose requests were in
              \* flight at the same time (history)

vars == <<db_users, request, response, pc, creq, cresp, together>>

(* ------------------------------ bounds -------------------------------- *)

\* ids range over 1..MaxId, in paths and in bodies
MaxId == 3
\* number of clients with a request in flight at the same time (SpecConc)
NumClients == 2

Ids == 1..MaxId
Clients == 1..NumClients

(* ------------------------------ data ---------------------------------- *)

\* class User(BaseModel): the four required fields
UserFields == {"id", "username", "wallet", "birthdate"}

\* pydantic validation of a request body against User: every field is
\* required (none has a default); keys beyond the four are ignored
ValidationError(body) == ~(UserFields \subseteq DOMAIN body)

\* the User object pydantic builds from a body that validates
User(body) ==
  [id |-> body.id, username |-> body.username,
   wallet |-> body.wallet, birthdate |-> body.birthdate]

\* the list db_users as the module body leaves it
SeedUsers ==
  << [id |-> 1, username |-> "user1", wallet |-> 100, birthdate |-> <<1990, 1, 1>>],
     [id |-> 2, username |-> "user2", wallet |-> 200, birthdate |-> <<1995, 5, 15>>] >>

(* --------------------------- responses -------------------------------- *)

\* a handler returned value(s): FastAPI answers with the route's status
\* code, which is 200 for every route here (no status_code= is given)
Ok(db, users) == [db |-> db, status |-> 200, detail |-> "", users |-> users]

\* raise HTTPException(status_code=..., detail=...): db_users as it is
HTTPException(db, status_code, detail) ==
  [db |-> db, status |-> status_code, detail |-> detail, users |-> <<>>]

\* the framework's answer to a body that fails validation: the handler
\* is not called
RequestValidationError(db) ==
  [db |-> db, status |-> 422, detail |-> "Field required", users |-> <<>>]

(* ---------------------------- handlers -------------------------------- *)

\* any(u.id == id for u in db)
HasId(db, id) == \E i \in DOMAIN db : db[i].id = id

\* next((i for i, u in enumerate(db) if u.id == id), None): first match
FirstIndex(db, id) ==
  CHOOSE i \in DOMAIN db : db[i].id = id /\ \A j \in 1..(i - 1) : db[j].id # id

\* db.pop(i)
Pop(db, i) == [j \in 1..(Len(db) - 1) |-> IF j < i THEN db[j] ELSE db[j + 1]]

\* faulty variant: the listing drops the first record (an off-by-one slice)
read_users_tail(db) ==
  Ok(db, IF db = <<>> THEN <<>> ELSE Tail(db))

\* GET /users/
read_users(db) == Ok(db, db)

\* GET /users/{user_id}
read_user(db, user_id) ==
  IF ~HasId(db, user_id)
  THEN HTTPException(db, 404, "User not found")
  ELSE Ok(db, <<db[FirstIndex(db, user_id)]>>)

\* faulty variant: no duplicate check
create_user_nocheck(db, user) == Ok(Append(db, user), <<user>>)

\* faulty variant: a duplicate id overwrites the stored record (upsert)
create_user_upsert(db, user) ==
  IF HasId(db, user.id)
  THEN Ok([db EXCEPT ![FirstIndex(db, user.id)] = user], <<user>>)
  ELSE Ok(Append(db, user), <<user>>)

\* faulty variant: db_users.insert(0, user)
create_user_prepend(db, user) ==
  IF HasId(db, user.id)
  THEN HTTPException(db, 400, "User with this ID already exists")
  ELSE Ok(<<user>> \o db, <<user>>)

\* create_user(user), called with the validated User
create_user(db, user) ==
  IF HasId(db, user.id)
  THEN HTTPException(db, 400, "User with this ID already exists")
  ELSE Ok(Append(db, user), <<user>>)

\* faulty variant: the update also copies the body's id
update_user_copyid(db, user_id, updated_user) ==
  IF ~HasId(db, user_id)
  THEN HTTPException(db, 404, "User not found")
  ELSE LET i == FirstIndex(db, user_id)
           u == [db[i] EXCEPT !.id = updated_user.id,
                              !.username = updated_user.username,
                              !.wallet = updated_user.wallet,
                              !.birthdate = updated_user.birthdate]
       IN  Ok([db EXCEPT ![i] = u], <<u>>)

\* faulty variant: an absent id is stored as a new record (upsert)
update_user_upsert(db, user_id, updated_user) ==
  IF ~HasId(db, user_id)
  THEN LET u == [updated_user EXCEPT !.id = user_id]
       IN  Ok(Append(db, u), <<u>>)
  ELSE LET i == FirstIndex(db, user_id)
           u == [db[i] EXCEPT !.username = updated_user.username,
                              !.wallet = updated_user.wallet,
                              !.birthdate = updated_user.birthdate]
       IN  Ok([db EXCEPT ![i] = u], <<u>>)

\* update_user(user_id, updated_user), called with the validated User:
\* the loop stops at the first record with the id
update_user(db, user_id, updated_user) ==
  IF ~HasId(db, user_id)
  THEN HTTPException(db, 404, "User not found")
  ELSE LET i == FirstIndex(db, user_id)
           u == [db[i] EXCEPT !.username = updated_user.username,
                              !.wallet = updated_user.wallet,
                              !.birthdate = updated_user.birthdate]
       IN  Ok([db EXCEPT ![i] = u], <<u>>)

\* faulty variant: db_users.pop() without the index
delete_user_poplast(db, user_id) ==
  IF ~HasId(db, user_id)
  THEN HTTPException(db, 404, "User not found")
  ELSE Ok(Pop(db, Len(db)), <<db[Len(db)]>>)

\* delete_user(user_id)
delete_user(db, user_id) ==
  IF ~HasId(db, user_id)
  THEN HTTPException(db, 404, "User not found")
  ELSE LET user_index == FirstIndex(db, user_id)
       IN  Ok(Pop(db, user_index), <<db[user_index]>>)

(* ----------------------------- routes --------------------------------- *)

\* a request without a body
NoBody == [k \in {} |-> 0]

\* @app.post("/users/"): the body is validated against User, then
\* create_user runs
post_users(db, body) ==
  IF ValidationError(body) THEN RequestValidationError(db)
  ELSE create_user(db, User(body))

\* @app.put("/users/{user_id}"): the body is validated against User,
\* then update_user runs
put_user(db, user_id, body) ==
  IF ValidationError(body) THEN RequestValidationError(db)
  ELSE update_user(db, user_id, User(body))

\* the application: the route a request is dispatched to
app(db, req) ==
  CASE req.op = "read_users"  -> read_users(db)
    [] req.op = "read_user"   -> read_user(db, req.user_id)
    [] req.op = "create_user" -> post_users(db, req.body)
    [] req.op = "update_user" -> put_user(db, req.user_id, req.body)
    [] req.op = "delete_user" -> delete_user(db, req.user_id)

Reply(r) == [status |-> r.status, detail |-> r.detail, users |-> r.users]

(* ------------------------- request inputs ----------------------------- *)

\* username, wallet and birthdate of the documented example requests
Profiles ==
  { [username |-> "new_user", wallet |-> 50, birthdate |-> <<2000, 1, 1>>],
    [username |-> "updated_user", wallet |-> 150, birthdate |-> <<1991, 1, 1>>] }

\* bodies: complete ones, ones without id (the documented PUT example),
\* and ones without wallet and birthdate
Bodies ==
  { [id |-> i, username |-> p.username, wallet |-> p.wallet,
     birthdate |-> p.birthdate] : i \in Ids, p \in Profiles }
  \cup Profiles
  \cup { [id |-> i, username |-> "new_user"] : i \in Ids }

NoRequest == [op |-> "none", user_id |-> 0, body |-> NoBody]
NoResponse == [status |-> 0, detail |-> "", users |-> <<>>]

(* --------------------- sequential specification ----------------------- *)

Init ==
  /\ db_users = SeedUsers
  /\ request = NoRequest
  /\ response = NoResponse
  /\ pc = [c \in Clients |-> "idle"]
  /\ creq = [c \in Clients |-> NoRequest]
  /\ cresp = [c \in Clients |-> NoResponse]
  /\ together = {}

\* GET /users/
ReadUsers ==
  LET r == read_users(db_users)
  IN  /\ request' = [op |-> "read_users", user_id |-> 0, body |-> NoBody]
      /\ db_users' = r.db
      /\ response' = Reply(r)
      /\ UNCHANGED <<pc, creq, cresp, together>>

\* GET /users/{user_id}
ReadUser ==
  \E user_id \in Ids :
    LET r == read_user(db_users, user_id)
    IN  /\ request' = [op |-> "read_user", user_id |-> user_id, body |-> NoBody]
        /\ db_users' = r.db
        /\ response' = Reply(r)
        /\ UNCHANGED <<pc, creq, cresp, together>>

\* POST /users/
CreateUser ==
  \E body \in Bodies :
    LET r == post_users(db_users, body)
    IN  /\ request' = [op |-> "create_user", user_id |-> 0, body |-> body]
        /\ db_users' = r.db
        /\ response' = Reply(r)
        /\ UNCHANGED <<pc, creq, cresp, together>>

\* PUT /users/{user_id}
UpdateUser ==
  \E user_id \in Ids, body \in Bodies :
    LET r == put_user(db_users, user_id, body)
    IN  /\ request' = [op |-> "update_user", user_id |-> user_id, body |-> body]
        /\ db_users' = r.db
        /\ response' = Reply(r)
        /\ UNCHANGED <<pc, creq, cresp, together>>

\* DELETE /users/{user_id}
DeleteUser ==
  \E user_id \in Ids :
    LET r == delete_user(db_users, user_id)
    IN  /\ request' = [op |-> "delete_user", user_id |-> user_id, body |-> NoBody]
        /\ db_users' = r.db
        /\ response' = Reply(r)
        /\ UNCHANGED <<pc, creq, cresp, together>>

Next == ReadUsers \/ ReadUser \/ CreateUser \/ UpdateUser \/ DeleteUser

Spec == Init /\ [][Next]_vars

(* --------------------- concurrent specification ----------------------- *)
(* Every handler is an `async def` without an await: once the event loop   *)
(* starts the coroutine of a request it runs to its return or raise, so a  *)
(* request in flight is served in one step.  Each client sends one         *)
(* request; the requests of different clients are in flight together and   *)
(* the event loop picks the order.                                         *)

\* the requests a client may send
ConcRequests ==
  { [op |-> "read_users", user_id |-> 0, body |-> NoBody] }
  \cup { [op |-> o, user_id |-> i, body |-> NoBody] :
           o \in {"read_user", "delete_user"}, i \in Ids }
  \cup { [op |-> "create_user", user_id |-> 0,
          body |-> [id |-> i, username |-> "new_user", wallet |-> 50,
                    birthdate |-> <<2000, 1, 1>>]] : i \in Ids }
  \cup { [op |-> "update_user", user_id |-> i,
          body |-> [id |-> i, username |-> "updated_user", wallet |-> 150,
                    birthdate |-> <<1991, 1, 1>>]] : i \in Ids }
  \cup { [op |-> "update_user", user_id |-> i,
          body |-> [username |-> "updated_user", wallet |-> 150,
                    birthdate |-> <<1991, 1, 1>>]] : i \in Ids }

\* a client's request reaches the server
Arrive ==
  \E c \in Clients, req \in ConcRequests :
    /\ pc[c] = "idle"
    /\ pc' = [pc EXCEPT ![c] = "inflight"]
    /\ creq' = [creq EXCEPT ![c] = req]
    /\ together' = together \cup
         {<<c, d>> : d \in {e \in Clients : pc[e] = "inflight"}}
         \cup {<<d, c>> : d \in {e \in Clients : pc[e] = "inflight"}}
    /\ UNCHANGED <<db_users, request, response, cresp>>

\* the event loop runs the coroutine of c's request to completion
Finish(c, r) ==
  /\ db_users' = r.db
  /\ cresp' = [cresp EXCEPT ![c] = Reply(r)]
  /\ pc' = [pc EXCEPT ![c] = "done"]
  /\ UNCHANGED <<request, response, creq, together>>

TaskReadUsers(c) ==
  /\ pc[c] = "inflight" /\ creq[c].op = "read_users"
  /\ Finish(c, read_users(db_users))

TaskReadUser(c) ==
  /\ pc[c] = "inflight" /\ creq[c].op = "read_user"
  /\ Finish(c, read_user(db_users, creq[c].user_id))

\* faulty variant: create_user awaits between its check and its append, so the
\* event loop may run other coroutines in between
TaskCreateUserAwait(c) ==
  /\ creq[c].op = "create_user"
  /\ \/ /\ pc[c] = "inflight"
        /\ IF ValidationError(creq[c].body) \/ HasId(db_users, creq[c].body.id)
           THEN Finish(c, post_users(db_users, creq[c].body))
           ELSE /\ pc' = [pc EXCEPT ![c] = "checked"]
                /\ UNCHANGED <<db_users, request, response, creq, cresp, together>>
     \/ /\ pc[c] = "checked"
        /\ Finish(c, Ok(Append(db_users, User(creq[c].body)),
                        <<User(creq[c].body)>>))

TaskCreateUser(c) ==
  /\ pc[c] = "inflight" /\ creq[c].op = "create_user"
  /\ Finish(c, post_users(db_users, creq[c].body))

TaskUpdateUser(c) ==
  /\ pc[c] = "inflight" /\ creq[c].op = "update_user"
  /\ Finish(c, put_user(db_users, creq[c].user_id, creq[c].body))

TaskDeleteUser(c) ==
  /\ pc[c] = "inflight" /\ creq[c].op = "delete_user"
  /\ Finish(c, delete_user(db_users, creq[c].user_id))

NextConc ==
  \/ Arrive
  \/ \E c \in Clients : TaskReadUsers(c)
  \/ \E c \in Clients : TaskReadUser(c)
  \/ \E c \in Clients : TaskCreateUser(c)
  \/ \E c \in Clients : TaskUpdateUser(c)
  \/ \E c \in Clients : TaskDeleteUser(c)

SpecConc == Init /\ [][NextConc]_vars

(* ------------------------------ claims -------------------------------- *)

\* whether the request carries what its route needs to reach the handler
Accepted(req) ==
  req.op \in {"create_user", "update_user"} => ~ValidationError(req.body)

\* the record a body submits, field by field
Submitted(body) ==
  [id |-> body.id, username |-> body.username,
   wallet |-> body.wallet, birthdate |-> body.birthdate]

\* C1: in every reachable state the collection holds at most one record
\* per id value.
UniqueIds ==
  \A i, j \in DOMAIN db_users : db_users[i].id = db_users[j].id => i = j

\* C1 witness: a duplicate Create was just refused while three records
\* are stored.
UniqueIdsWitness ==
  /\ request.op = "create_user"
  /\ response.status = 400
  /\ Len(db_users) = 3

\* C2: a Create whose id is already stored is answered 400
\* AlreadyExists and leaves the collection exactly as it was, whatever
\* the other fields of the submitted record are.
CreateDuplicateRejected ==
  [][ (/\ request'.op = "create_user"
       /\ ~ValidationError(request'.body)
       /\ HasId(db_users, request'.body.id))
      => (/\ response'.status = 400
          /\ response'.detail = "User with this ID already exists"
          /\ response'.users = <<>>
          /\ db_users' = db_users) ]_vars

\* C2 witness: a refused Create whose username differs from the one the
\* stored record of that id holds.
CreateDuplicateWitness ==
  /\ request.op = "create_user"
  /\ response.status = 400
  /\ \E i \in DOMAIN db_users :
       /\ db_users[i].id = request.body.id
       /\ db_users[i].username # request.body.username

\* C3: a Create whose id is not stored succeeds, returns the submitted
\* record and appends it as the last element, all earlier elements
\* unchanged; a Get of that id right afterwards returns the submitted
\* id, username, wallet and birthdate.
CreateFreshAppends ==
  [][ (/\ request'.op = "create_user"
       /\ ~ValidationError(request'.body)
       /\ ~HasId(db_users, request'.body.id))
      => (/\ response'.status \in 200..299
          /\ response'.detail = ""
          /\ response'.users = <<Submitted(request'.body)>>
          /\ db_users' = Append(db_users, Submitted(request'.body))
          /\ read_user(db_users', request'.body.id).status = 200
          /\ read_user(db_users', request'.body.id).users
               = <<Submitted(request'.body)>>) ]_vars

\* C3 witness: a Create just succeeded and its record is the last of at
\* least three.
CreateFreshWitness ==
  /\ request.op = "create_user"
  /\ response.status = 200
  /\ Len(db_users) >= 3
  /\ db_users[Len(db_users)] = Submitted(request.body)

\* C4: an Update of a stored id replaces that record's username, wallet
\* and birthdate by the body's, returns the updated record and keeps the
\* record's id equal to the path id whatever id the body carries; the
\* length of the collection and every other record are unchanged.
UpdateReplacesFields ==
  [][ (/\ request'.op = "update_user"
       /\ ~ValidationError(request'.body)
       /\ HasId(db_users, request'.user_id))
      => \E i \in DOMAIN db_users :
           /\ db_users[i].id = request'.user_id
           /\ response'.status = 200
           /\ response'.users =
                << [id |-> request'.user_id,
                    username |-> request'.body.username,
                    wallet |-> request'.body.wallet,
                    birthdate |-> request'.body.birthdate] >>
           /\ Len(db_users') = Len(db_users)
           /\ db_users'[i] = response'.users[1]
           /\ \A j \in DOMAIN db_users \ {i} : db_users'[j] = db_users[j] ]_vars

\* C4 witness: an Update just succeeded whose body carried the id of
\* another stored record.
UpdateWitness ==
  /\ request.op = "update_user"
  /\ response.status = 200
  /\ request.body.id # request.user_id
  /\ HasId(db_users, request.body.id)
  /\ HasId(db_users, request.user_id)

\* C5: a Delete of a stored id removes exactly that record and returns
\* the fields it held just before the call; every other record keeps its
\* values and its place; a Get of an id that is not stored is answered
\* 404, and an id comes to be stored only by a Create of that id.
DeleteRemovesOne ==
  [][ /\ (request'.op = "delete_user" /\ HasId(db_users, request'.user_id))
         => \E i \in DOMAIN db_users :
              /\ db_users[i].id = request'.user_id
              /\ response'.status = 200
              /\ response'.users = <<db_users[i]>>
              /\ Len(db_users') = Len(db_users) - 1
              /\ \A j \in 1..(i - 1) : db_users'[j] = db_users[j]
              /\ \A j \in i..(Len(db_users) - 1) : db_users'[j] = db_users[j + 1]
              /\ read_user(db_users', request'.user_id).status = 404
      /\ \A id \in Ids :
           /\ ~HasId(db_users', id) => read_user(db_users', id).status = 404
           /\ (~HasId(db_users, id) /\ HasId(db_users', id))
                => (request'.op = "create_user" /\ request'.body.id = id) ]_vars

\* C5 witness: a Delete just returned a record whose fields an earlier
\* Update had set, and other records remain.
DeleteWitness ==
  /\ request.op = "delete_user"
  /\ response.status = 200
  /\ response.users[1].username = "updated_user"
  /\ db_users # <<>>

ListReturnsAll ==
  [][ /\ request'.op = "read_users"
         => (/\ response'.status = 200
             /\ response'.detail = ""
             /\ response'.users = db_users
             /\ db_users' = db_users
             /\ \A i, j \in DOMAIN response'.users :
                  response'.users[i].id = response'.users[j].id => i = j)
      /\ (request.op = "none" /\ request'.op = "read_users")
         => response'.users =
              << [id |-> 1, username |-> "user1", wallet |-> 100,
                  birthdate |-> <<1990, 1, 1>>],
                 [id |-> 2, username |-> "user2", wallet |-> 200,
                  birthdate |-> <<1995, 5, 15>>] >>
      /\ \A i, j \in DOMAIN db_users, k, l \in DOMAIN db_users' :
           (/\ i < j
            /\ db_users'[k].id = db_users[i].id
            /\ db_users'[l].id = db_users[j].id) => k < l
      /\ \A k \in DOMAIN db_users' :
           ~HasId(db_users, db_users'[k].id) => k = Len(db_users') ]_vars

\* C7 witness: a List just returned three records whose ids are not in
\* increasing order.
ListWitness ==
  /\ request.op = "read_users"
  /\ Len(response.users) = 3
  /\ response.users[1].id > response.users[3].id

\* C8: a successful Create is answered with status 201 Created.
CreateAnswers201 ==
  (/\ request.op = "create_user"
   /\ response.detail = ""
   /\ response.users # <<>>) => response.status = 201

\* C9: an Update of a stored id whose body carries username, wallet and
\* birthdate and no id is answered 200 with the updated record.
UpdateWithoutIdAccepted ==
  (/\ request.op = "update_user"
   /\ DOMAIN request.body = {"username", "wallet", "birthdate"}
   /\ HasId(db_users, request.user_id))
  => (/\ response.status = 200
      /\ response.users =
           << [id |-> request.user_id, username |-> request.body.username,
               wallet |-> request.body.wallet,
               birthdate |-> request.body.birthdate] >>)

\* the clients whose request has been answered
Done == {c \in Clients : pc[c] = "done"}

\* the orders in which the answered requests can be put
Orders ==
  {o \in [1..Cardinality(Done) -> Done] :
     \A c \in Done : \E k \in DOMAIN o : o[k] = c}

\* db_users after the first k requests of order o, served one after the
\* other from the seeded store
RECURSIVE DbAfter(_, _)
DbAfter(o, k) ==
  IF k = 0 THEN SeedUsers ELSE app(DbAfter(o, k - 1), creq[o[k]]).db

\* the answers and the store are those of serving the requests in order o
Serial(o) ==
  /\ \A k \in DOMAIN o :
       cresp[o[k]] = Reply(app(DbAfter(o, k - 1), creq[o[k]]))
  /\ db_users = DbAfter(o, Len(o))

\* the answered clients that asked to create, or to delete, id
Creators(id) ==
  {c \in Done : creq[c].op = "create_user" /\ creq[c].body.id = id}
Deleters(id) ==
  {c \in Done : creq[c].op = "delete_user" /\ creq[c].user_id = id}

\* C10: whatever the interleaving of the requests in flight, the answers
\* and the store equal those of some sequential order of the requests;
\* of the concurrent Creates of one fresh id exactly one succeeds and
\* the others get 400; of the concurrent Deletes of one stored id
\* exactly one succeeds and the others get 404.
AtomicHandlers ==
  /\ \E o \in Orders : Serial(o)
  /\ \A id \in Ids :
       (~HasId(SeedUsers, id) /\ Deleters(id) = {} /\ Creators(id) # {})
       => /\ Cardinality({c \in Creators(id) : cresp[c].status = 200}) = 1
          /\ \A c \in Creators(id) : cresp[c].status \in {200, 400}
  /\ \A id \in Ids :
       (HasId(SeedUsers, id) /\ Creators(id) = {} /\ Deleters(id) # {})
       => /\ Cardinality({c \in Deleters(id) : cresp[c].status = 200}) = 1
          /\ \A c \in Deleters(id) : cresp[c].status \in {200, 404}

\* C10 witness: two Creates of the same fresh id were in flight together
\* and both are answered, one 200 and one 400.
AtomicWitness ==
  \E c, d \in Clients :
    /\ <<c, d>> \in together
    /\ pc[c] = "done" /\ pc[d] = "done"
    /\ creq[c].op = "create_user" /\ creq[d].op = "create_user"
    /\ creq[c].body.id = creq[d].body.id
    /\ ~HasId(SeedUsers, creq[c].body.id)
    /\ cresp[c].status = 200 /\ cresp[d].status = 400

====
